---- MODULE Spec2Model ----
(***************************************************************************)
(* Model of pcdet/utils/transform_utils.py: project_to_image,              *)
(* normalize_coords and bin_depths.                                        *)
(*                                                                         *)
(* Numbers are extended rationals: a finite value is an exact fraction     *)
(* n/d in lowest terms, and NaN, +Inf and -Inf follow the IEEE-754 rules   *)
(* of the tensor library (x/0, Inf-Inf, comparisons with NaN).  Rounding   *)
(* of the binary floating-point formats is not modelled; sqrt and log are  *)
(* computed to a fixed resolution (SqrtScale, LnScale), exact where the    *)
(* result is representable.                                                *)
(*                                                                         *)
(* Tensors live in `store`, a sequence of storages; the arguments of a     *)
(* call are references into it, so that an in-place write is visible       *)
(* through every reference to the same storage.                            *)
(***************************************************************************)
EXTENDS Integers, Sequences, FiniteSets

VARIABLES pc, fn, store, args, ret

vars == <<pc, fn, store, args, ret>>

(***************************************************************************)
(* Bounds of the model.                                                    *)
(***************************************************************************)
MaxLen == 2        \* entries of a depth map
MaxBins == 3       \* num_bins ranges over 1..MaxBins
MaxDepth == 5      \* finite depths range over -2..MaxDepth
SqrtScale == 100   \* sqrt is computed to 1/SqrtScale
LnScale == 1000    \* log is computed to 1/LnScale

(***************************************************************************)
(* Extended rational arithmetic (the element type of a float tensor).      *)
(***************************************************************************)
Abs(i) == IF i < 0 THEN -i ELSE i

RECURSIVE Gcd(_, _)
Gcd(a, b) == IF b = 0 THEN a ELSE Gcd(b, a % b)

NaN == [k |-> "nan", n |-> 0, d |-> 1]
PInf == [k |-> "pinf", n |-> 0, d |-> 1]
NInf == [k |-> "ninf", n |-> 0, d |-> 1]

\* The fraction n/d (d # 0) in lowest terms with a positive denominator.
Fin(n, d) ==
    LET g == Gcd(Abs(n), Abs(d))
        s == IF d < 0 THEN -1 ELSE 1
    IN  [k |-> "fin", n |-> (s * n) \div g, d |-> Abs(d) \div g]

Num(i) == [k |-> "fin", n |-> i, d |-> 1]

IsFinite(a) == a.k = "fin"
IsNaN(a) == a.k = "nan"
IsInf(a) == a.k \in {"pinf", "ninf"}

Sign(a) ==
    CASE a.k = "pinf" -> 1
      [] a.k = "ninf" -> -1
      [] a.k = "nan" -> 0
      [] OTHER -> IF a.n > 0 THEN 1 ELSE IF a.n < 0 THEN -1 ELSE 0

Neg(a) ==
    CASE a.k = "fin" -> [a EXCEPT !.n = -a.n]
      [] a.k = "pinf" -> NInf
      [] a.k = "ninf" -> PInf
      [] OTHER -> NaN

Add(a, b) ==
    IF a.k = "fin" /\ b.k = "fin"
    THEN (IF a.d = 1 /\ b.d = 1 THEN Num(a.n + b.n)
          ELSE Fin(a.n * b.d + b.n * a.d, a.d * b.d))
    ELSE IF IsNaN(a) \/ IsNaN(b) THEN NaN
    ELSE IF IsInf(a) /\ IsInf(b) THEN (IF a.k = b.k THEN a ELSE NaN)
    ELSE IF IsInf(a) THEN a
    ELSE b

Sub(a, b) == Add(a, Neg(b))

Mul(a, b) ==
    IF a.k = "fin" /\ b.k = "fin"
    THEN (IF a.d = 1 /\ b.d = 1 THEN Num(a.n * b.n)
          ELSE Fin(a.n * b.n, a.d * b.d))
    ELSE IF IsNaN(a) \/ IsNaN(b) THEN NaN
    ELSE IF Sign(a) * Sign(b) = 0 THEN NaN
    ELSE IF Sign(a) * Sign(b) > 0 THEN PInf
    ELSE NInf

Div(a, b) ==
    IF IsNaN(a) \/ IsNaN(b) THEN NaN
    ELSE IF IsInf(a) /\ IsInf(b) THEN NaN
    ELSE IF IsInf(a)
         THEN (IF Sign(a) * (IF Sign(b) < 0 THEN -1 ELSE 1) > 0 THEN PInf ELSE NInf)
    ELSE IF IsInf(b) THEN Num(0)
    ELSE IF b.n = 0
         THEN (IF a.n = 0 THEN NaN ELSE IF a.n > 0 THEN PInf ELSE NInf)
    ELSE Fin(a.n * b.d, a.d * b.n)

\* Comparisons: every comparison with NaN is false.
Lt(a, b) ==
    IF IsNaN(a) \/ IsNaN(b) THEN FALSE
    ELSE IF a.k = "ninf" THEN b.k # "ninf"
    ELSE IF a.k = "pinf" THEN FALSE
    ELSE IF b.k = "pinf" THEN TRUE
    ELSE IF b.k = "ninf" THEN FALSE
    ELSE a.n * b.d < b.n * a.d

Gt(a, b) == Lt(b, a)

Le(a, b) == Lt(a, b) \/ (~IsNaN(a) /\ a = b)

\* Largest r in lo..hi-1 with r*r <= m, given lo*lo <= m < hi*hi.
RECURSIVE ISqrtSearch(_, _, _)
ISqrtSearch(m, lo, hi) ==
    IF hi - lo <= 1 THEN lo
    ELSE LET mid == (lo + hi) \div 2
         IN  IF mid * mid <= m THEN ISqrtSearch(m, mid, hi)
             ELSE ISqrtSearch(m, lo, mid)

ISqrt(m) == ISqrtSearch(m, 0, IF m + 1 < 46341 THEN m + 1 ELSE 46341)

\* torch.sqrt: NaN for a negative argument, exact on squares of multiples
\* of 1/SqrtScale, rounded down to that resolution otherwise.
Sqrt(a) ==
    CASE a.k = "nan" -> NaN
      [] a.k = "ninf" -> NaN
      [] a.k = "pinf" -> PInf
      [] OTHER -> IF a.n < 0 THEN NaN
                  ELSE Fin(ISqrt((a.n * SqrtScale * SqrtScale) \div a.d), SqrtScale)

\* Sum of pw/(2k+1) over the odd powers pw of u/v, in units of 1/LnScale.
RECURSIVE AtanhSum(_, _, _, _)
AtanhSum(pw, u, v, k) ==
    IF pw = 0 THEN 0
    ELSE (pw \div (2 * k + 1)) + AtanhSum((pw * u * u) \div (v * v), u, v, k + 1)

\* ln(p/q) for p, q > 0 as 2*atanh((p-q)/(p+q)), in units of 1/LnScale.
LnFixed(p, q) ==
    LET u == Abs(p - q)
        v == p + q
        s == 2 * AtanhSum((LnScale * u) \div v, u, v, 0)
    IN  IF p < q THEN -s ELSE s

\* torch.log on a tensor element: -Inf at 0, NaN below 0.
Log(a) ==
    CASE a.k = "nan" -> NaN
      [] a.k = "ninf" -> NaN
      [] a.k = "pinf" -> PInf
      [] OTHER -> IF a.n < 0 THEN NaN
                  ELSE IF a.n = 0 THEN NInf
                  ELSE Fin(LnFixed(a.n, a.d), LnScale)

\* math.log on a Python float: defined for a positive argument only
\* (the caller raises ValueError otherwise).
MathLogDefined(a) == IsFinite(a) /\ a.n > 0
MathLog(a) == Fin(LnFixed(a.n, a.d), LnScale)

\* Tensor.type(torch.int64) on one element: truncation toward zero.  The
\* cast of a non-finite value is undefined in the library.
ToInt64(a) ==
    IF IsFinite(a)
    THEN Num(IF a.n >= 0 THEN a.n \div a.d ELSE -((-a.n) \div a.d))
    ELSE [k |-> "undef", n |-> 0, d |-> 1]

(***************************************************************************)
(* Tensors and the store.                                                  *)
(***************************************************************************)
Tensor(dtype, data) == [dtype |-> dtype, data |-> data]

Alloc(st, t) == Append(st, t)

NoRef == 0

(***************************************************************************)
(* bin_depths(depth_map, mode, depth_min, depth_max, num_bins, target)     *)
(***************************************************************************)
SupportedModes == {"UD", "LID", "SID"}

BinSizeUD(depth_min, depth_max, num_bins) ==
    Div(Sub(depth_max, depth_min), Num(num_bins))

\* Variant: the offset subtracted the wrong way round.
IndexUDReversed(d, depth_min, depth_max, num_bins) ==
    Div(Sub(depth_min, d), BinSizeUD(depth_min, depth_max, num_bins))

IndexUD(d, depth_min, depth_max, num_bins) ==
    Div(Sub(d, depth_min), BinSizeUD(depth_min, depth_max, num_bins))

\* Variant: num_bins * num_bins in place of num_bins * (1 + num_bins).
BinSizeLIDSquare(depth_min, depth_max, num_bins) ==
    Div(Mul(Num(2), Sub(depth_max, depth_min)), Num(num_bins * num_bins))

BinSizeLID(depth_min, depth_max, num_bins) ==
    Div(Mul(Num(2), Sub(depth_max, depth_min)), Num(num_bins * (1 + num_bins)))

IndexLID(d, depth_min, depth_max, num_bins) ==
    Add(Fin(-1, 2),
        Mul(Fin(1, 2),
            Sqrt(Add(Num(1),
                     Div(Mul(Num(8), Sub(d, depth_min)),
                         BinSizeLID(depth_min, depth_max, num_bins))))))

\* math.log raises ValueError unless both 1 + depth_min and 1 + depth_max
\* are positive.
SIDDefined(depth_min, depth_max) ==
    /\ MathLogDefined(Add(Num(1), depth_min))
    /\ MathLogDefined(Add(Num(1), depth_max))

IndexSID(d, depth_min, depth_max, num_bins) ==
    Div(Mul(Num(num_bins),
            Sub(Log(Add(Num(1), d)), MathLog(Add(Num(1), depth_min)))),
        Sub(MathLog(Add(Num(1), depth_max)), MathLog(Add(Num(1), depth_min))))

\* Variant: an unknown mode falls back to the uniform discretization.
BranchDefaultUD(mode) == IF mode \in SupportedModes THEN mode ELSE "UD"

\* The branch of the if/elif/else chain that `mode` selects.
Branch(mode) == IF mode \in SupportedModes THEN mode ELSE "else"

\* The bin-space value of one depth (lines 84-92), for a supported mode.
Index(d, mode, depth_min, depth_max, num_bins) ==
    CASE Branch(mode) = "UD" -> IndexUD(d, depth_min, depth_max, num_bins)
      [] Branch(mode) = "LID" -> IndexLID(d, depth_min, depth_max, num_bins)
      [] Branch(mode) = "SID" -> IndexSID(d, depth_min, depth_max, num_bins)

\* How the mode dispatch ends: "ok", or the exception it raises.
ModeStatus(mode, depth_min, depth_max) ==
    IF Branch(mode) = "else" THEN "NotImplementedError"
    ELSE IF Branch(mode) = "SID" /\ ~SIDDefined(depth_min, depth_max)
         THEN "ValueError"
    ELSE "ok"

\* Variant: the mask without the finiteness test.
MaskBoundsOnly(idx, num_bins) == Lt(idx, Num(0)) \/ Gt(idx, Num(num_bins))

\* mask = (indices < 0) | (indices > num_bins) | (~torch.isfinite(indices))
Mask(idx, num_bins) ==
    Lt(idx, Num(0)) \/ Gt(idx, Num(num_bins)) \/ ~IsFinite(idx)

\* indices[mask] = num_bins: an in-place write into the storage `ref`.
MaskedFill(st, ref, num_bins) ==
    [st EXCEPT ![ref].data =
        [i \in DOMAIN @ |-> IF Mask(@[i], num_bins) THEN Num(num_bins) ELSE @[i]]]

\* indices.type(torch.int64): a new tensor.
TypeInt64(t) == Tensor("int64", [i \in DOMAIN t.data |-> ToInt64(t.data[i])])

\* Variant: `indices` aliases the caller's depth_map.
IndicesRefAliased(st, a) == a.depth_map

\* The storage the name `indices` is bound to after lines 84-92: the
\* arithmetic on depth_map allocates a new tensor.
IndicesRef(st, a) == Len(st) + 1

\* The store after lines 84-92.
ComputeIndices(st, a) ==
    Alloc(st, Tensor("float",
        [i \in DOMAIN st[a.depth_map].data |->
            Index(st[a.depth_map].data[i], a.mode, a.depth_min, a.depth_max,
                  a.num_bins)]))

\* Variant: the integer conversion before the masking.
TargetBranchCastFirst(st, ref, num_bins) ==
    LET cast == Alloc(st, TypeInt64(st[ref]))
    IN  MaskedFill(cast, Len(cast), num_bins)

\* The target branch (lines 96-102) on the store `st`, `ref` being indices.
TargetBranch(st, ref, num_bins) ==
    LET masked == MaskedFill(st, ref, num_bins)
    IN  Alloc(masked, TypeInt64(masked[ref]))

\* The whole call: the store it leaves and what it returns.
BinDepthsCall(st, a) ==
    LET status == ModeStatus(a.mode, a.depth_min, a.depth_max)
    IN  IF status # "ok"
        THEN [store |-> st, ret |-> [status |-> status, ref |-> NoRef]]
        ELSE LET st1 == ComputeIndices(st, a)
                 ref == IndicesRef(st, a)
             IN  IF a.target
                 THEN LET st2 == TargetBranch(st1, ref, a.num_bins)
                      IN  [store |-> st2, ret |-> [status |-> "ok", ref |-> Len(st2)]]
                 ELSE [store |-> st1, ret |-> [status |-> "ok", ref |-> ref]]

BinDepths ==
    /\ pc = "call"
    /\ fn = "bin_depths"
    /\ LET r == BinDepthsCall(store, args)
       IN  /\ store' = r.store
           /\ ret' = r.ret
    /\ pc' = "return"
    /\ UNCHANGED <<fn, args>>

(***************************************************************************)
(* Inputs of bin_depths.                                                   *)
(***************************************************************************)
DepthVals == {Num(i) : i \in -2..MaxDepth} \cup {Fin(-1, 2), NaN, PInf, NInf}

RECURSIVE SeqsOfLen(_, _)
SeqsOfLen(S, len) ==
    IF len = 0 THEN {<<>>}
    ELSE {Append(s, x) : s \in SeqsOfLen(S, len - 1), x \in S}

SeqsUpTo(S, len) == UNION {SeqsOfLen(S, l) : l \in 1..len}

Modes == SupportedModes \cup {"XYZ"}

DepthMinVals == {Num(-1), Fin(-1, 2), Num(0), Num(1)}
DepthMaxVals == {Num(MaxDepth - 1)}

NoRet == [status |-> "none", ref |-> NoRef]

InitBin ==
    /\ pc = "call"
    /\ fn = "bin_depths"
    /\ \E dm \in SeqsUpTo(DepthVals, MaxLen) : store = <<Tensor("float", dm)>>
    /\ \E m \in Modes, lo \in DepthMinVals, hi \in DepthMaxVals,
          nb \in 1..MaxBins, t \in BOOLEAN :
          /\ Lt(lo, hi)
          /\ args = [depth_map |-> 1, mode |-> m, depth_min |-> lo,
                     depth_max |-> hi, num_bins |-> nb, target |-> t]
    /\ ret = NoRet

NextBin == BinDepths

SpecBin == InitBin /\ [][NextBin]_vars

(***************************************************************************)
(* project_to_image(project, points, bmm)                                  *)
(***************************************************************************)
\* convert_points_to_homogeneous: append a unit coordinate.
ToHomogeneous(p) == Append(p, Num(1))

\* convert_points_from_homogeneous: divide the leading coordinates by the
\* last one and drop it.
FromHomogeneous(p) == <<Div(p[1], p[3]), Div(p[2], p[3])>>

Max(i, j) == IF i > j THEN i ELSE j
Min(i, j) == IF i < j THEN i ELSE j

\* The index a dimension of extent `size` contributes under broadcasting.
Bc(i, size) == IF size = 1 THEN 1 ELSE i

\* Two extents broadcast when they are equal or one of them is 1.
Broadcastable(m, n) == m = n \/ m = 1 \/ n = 1

Dot4(r, v) ==
    Add(Add(Add(Mul(r[1], v[1]), Mul(r[2], v[2])), Mul(r[3], v[3])),
        Mul(r[4], v[4]))

\* project @ points for one (3, 4) matrix and one (4, 1) column.
MatVec(P, v) == [r \in 1..3 |-> Dot4(P[r], v)]

\* project.permute(0, 2, 1) on one matrix: (3, 4) -> (4, 3).
Permute(P) == [k \in 1..4 |-> [c \in 1..3 |-> P[c][k]]]

\* One row of points (1, 4) times one permuted matrix (4, 3).
VecMat(v, PT) ==
    [c \in 1..3 |->
        Add(Add(Add(Mul(v[1], PT[1][c]), Mul(v[2], PT[2][c])),
                Mul(v[3], PT[3][c])), Mul(v[4], PT[4][c]))]

\* Variant: the first coordinate taken for the depth.
FirstCoord(v) == v[1]

\* points_t[..., -1]
LastCoord(v) == v[Len(v)]

\* project[..., 2, 3]
Translation(P) == P[3][4]

\* torch.repeat_interleave(project, repeats, dim=0)
RepeatInterleave(ps, repeats) ==
    [j \in 1..(Len(ps) * repeats) |-> ps[((j - 1) \div repeats) + 1]]

\* points.shape[0] // project.shape[0]
RepeatCount(B, M) == B \div M

\* Variant: a batched product that stops at the shorter operand.
BmmTruncating(pts, projs) ==
    [ok |-> TRUE,
     value |-> [b \in 1..Min(Len(pts), Len(projs)) |->
                   [n \in 1..Len(pts[b]) |-> VecMat(pts[b][n], projs[b])]]]

\* torch.bmm(points, project): both operands hold the same number of
\* matrices, or the call fails.
Bmm(pts, projs) ==
    IF Len(pts) # Len(projs)
    THEN [ok |-> FALSE, value |-> <<>>]
    ELSE [ok |-> TRUE,
          value |-> [b \in 1..Len(pts) |->
                        [n \in 1..Len(pts[b]) |-> VecMat(pts[b][n], projs[b])]]]

Failed(st) == [store |-> st,
               ret |-> [status |-> "RuntimeError", img |-> NoRef, depth |-> NoRef]]

\* Lines 45-47: the two results are new tensors.
Returned(st, points_t, points_depth) ==
    LET img == [b \in 1..Len(points_t) |->
                   [n \in 1..Len(points_t[b]) |-> FromHomogeneous(points_t[b][n])]]
        st1 == Alloc(Alloc(st, Tensor("float", points_depth)), Tensor("float", img))
    IN  [store |-> st1,
         ret |-> [status |-> "ok", img |-> Len(st1), depth |-> Len(st1) - 1]]

\* Lines 27-33, for project of shape (M, 3, 4) and points of shape (B, N, 3).
ProjectMatmul(st, project, points) ==
    LET B == Len(points)
        N == Len(points[1])
        M == Len(project)
        Bo == Max(B, M)
        points_t == [b \in 1..Bo |-> [n \in 1..N |->
                        MatVec(project[Bc(b, M)],
                               ToHomogeneous(points[Bc(b, B)][n]))]]
        points_depth == [b \in 1..Bo |-> [n \in 1..N |->
                            Sub(LastCoord(points_t[b][n]),
                                Translation(project[Bc(b, M)]))]]
    IN  IF ~Broadcastable(M, B) THEN Failed(st)
        ELSE Returned(st, points_t, points_depth)

\* Lines 36-44, for project of shape (M, 3, 4) and points of shape (B, N, 3).
ProjectBmm(st, project, points) ==
    LET B == Len(points)
        N == Len(points[1])
        M == Len(project)
        ph == [b \in 1..B |-> [n \in 1..N |-> ToHomogeneous(points[b][n])]]
        pr == RepeatInterleave([m \in 1..M |-> Permute(project[m])],
                               RepeatCount(B, M))
        prod == Bmm(ph, pr)
        points_t == prod.value
        \* (Bt, N) minus (M,): the last axes are aligned.
        Bt == Len(points_t)
        W == Max(N, M)
        points_depth == [b \in 1..Bt |-> [j \in 1..W |->
                            Sub(LastCoord(points_t[b][Bc(j, N)]),
                                Translation(project[Bc(j, M)]))]]
    IN  IF ~prod.ok THEN Failed(st)
        ELSE IF ~Broadcastable(N, M) THEN Failed(st)
        ELSE Returned(st, points_t, points_depth)

ProjectToImageCall(st, a) ==
    IF a.bmm
    THEN ProjectBmm(st, st[a.project].data, st[a.points].data)
    ELSE ProjectMatmul(st, st[a.project].data, st[a.points].data)

ProjectToImage ==
    /\ pc = "call"
    /\ fn = "project_to_image"
    /\ LET r == ProjectToImageCall(store, args)
       IN  /\ store' = r.store
           /\ ret' = r.ret
    /\ pc' = "return"
    /\ UNCHANGED <<fn, args>>

(***************************************************************************)
(* Inputs of project_to_image.                                             *)
(***************************************************************************)
MaxPoints == 6     \* points has shape (B, N, 3) with B * N <= MaxPoints
MaxProj == 2       \* project has shape (M, 3, 4) with M <= MaxProj

Vec(s) == [i \in DOMAIN s |-> Num(s[i])]
Mat(rows) == [r \in DOMAIN rows |-> Vec(rows[r])]

IdentityProj == Mat(<<<<1, 0, 0, 0>>, <<0, 1, 0, 0>>, <<0, 0, 1, 0>>>>)

ProjSet ==
    {IdentityProj,
     Mat(<<<<2, 0, 1, 1>>, <<0, 2, 1, 0>>, <<0, 0, 1, 1>>>>),
     Mat(<<<<1, 0, 0, 0>>, <<0, 1, 0, 3>>, <<0, 0, 2, 2>>>>)}

PointSet == {Vec(<<1, 2, 1>>), Vec(<<4, -2, 2>>)}

PointsTensors ==
    UNION {SeqsOfLen(SeqsOfLen(PointSet, N), B) :
             <<B, N>> \in {bn \in (1..MaxPoints) \X (1..MaxPoints) :
                              bn[1] * bn[2] <= MaxPoints}}

NoProjRet == [status |-> "none", img |-> NoRef, depth |-> NoRef]

InitProj ==
    /\ pc = "call"
    /\ fn = "project_to_image"
    /\ \E pr \in SeqsUpTo(ProjSet, MaxProj), pts \in PointsTensors :
          store = <<Tensor("float", pr), Tensor("float", pts)>>
    /\ \E b \in BOOLEAN : args = [project |-> 1, points |-> 2, bmm |-> b]
    /\ ret = NoProjRet

NextProj == ProjectToImage

SpecProj == InitProj /\ [][NextProj]_vars

(***************************************************************************)
(* normalize_coords(coords, shape)                                         *)
(***************************************************************************)
\* Variant: the shape used in its given order.
FlipOmitted(s) == s

\* torch.flip(shape, dims=[0])
Flip(s) == [i \in 1..Len(s) |-> s[Len(s) + 1 - i]]

\* coords / (shape - 1) * (max_n - min_n) + min_n on one coordinate row,
\* with min_n = -1 and max_n = 1.
NormalizeRow(c, shape) ==
    [i \in 1..3 |->
        Add(Mul(Div(c[i], Sub(Flip(shape)[i], Num(1))), Num(1 - (-1))), Num(-1))]

NormalizeCoordsCall(st, a) ==
    LET norm_coords == [k \in DOMAIN st[a.coords].data |->
                           NormalizeRow(st[a.coords].data[k], st[a.shape].data)]
        st1 == Alloc(st, Tensor("float", norm_coords))
    IN  [store |-> st1, ret |-> [status |-> "ok", ref |-> Len(st1)]]

NormalizeCoords ==
    /\ pc = "call"
    /\ fn = "normalize_coords"
    /\ LET r == NormalizeCoordsCall(store, args)
       IN  /\ store' = r.store
           /\ ret' = r.ret
    /\ pc' = "return"
    /\ UNCHANGED <<fn, args>>

(***************************************************************************)
(* Inputs of normalize_coords: one row of coordinates, which may lie       *)
(* outside the grid, and a grid shape [D, H, W].                           *)
(***************************************************************************)
MaxDim == 3        \* every extent of the grid is in 1..MaxDim

InitNorm ==
    /\ pc = "call"
    /\ fn = "normalize_coords"
    /\ \E c \in SeqsOfLen({Num(i) : i \in 0..MaxDim}, 3),
          sh \in SeqsOfLen({Num(i) : i \in 1..MaxDim}, 3) :
          store = <<Tensor("float", <<c>>), Tensor("int64", sh)>>
    /\ args = [coords |-> 1, shape |-> 2]
    /\ ret = NoRet

NextNorm == NormalizeCoords

SpecNorm == InitNorm /\ [][NextNorm]_vars

(***************************************************************************)
(* The three functions together.                                           *)
(***************************************************************************)
Init == InitBin \/ InitProj \/ InitNorm

Next == BinDepths \/ ProjectToImage \/ NormalizeCoords

Spec == Init /\ [][Next]_vars

(***************************************************************************)
(* Properties.                                                             *)
(***************************************************************************)
AtReturn(f) == pc = "return" /\ fn = f

\* bin_depths: the caller's depth map, the returned tensor, and the
\* bin-space value the code computes for entry i.
DepthIn == store[args.depth_map].data
Out == store[ret.ref]
Idx(i) == Index(DepthIn[i], args.mode, args.depth_min, args.depth_max,
                args.num_bins)
NumBins == Num(args.num_bins)

\* C1 (as amended): whenever bin_depths with target=True returns, the result
\* has an integer type and holds exactly num_bins at every entry whose
\* computed index is negative or above num_bins, or whose depth is NaN or
\* +/-Inf.
C1_TargetClamping ==
    (AtReturn("bin_depths") /\ args.target /\ ret.status = "ok") =>
        /\ Out.dtype = "int64"
        /\ \A i \in DOMAIN DepthIn :
              (Lt(Idx(i), Num(0)) \/ Gt(Idx(i), NumBins) \/ ~IsFinite(DepthIn[i]))
                  => Out.data[i] = NumBins

\* C1 as stated: every negative depth (and every depth whose index is above
\* num_bins, and every NaN or Inf) comes back as num_bins.
C1_NegativeDepthClamped ==
    (AtReturn("bin_depths") /\ args.target /\ ret.status = "ok") =>
        /\ Out.dtype = "int64"
        /\ \A i \in DOMAIN DepthIn :
              (Lt(DepthIn[i], Num(0)) \/ Gt(Idx(i), NumBins) \/ ~IsFinite(DepthIn[i]))
                  => Out.data[i] = NumBins

\* A LID call in which one entry has a negative index and another is NaN.
C1_Witness ==
    /\ AtReturn("bin_depths") /\ args.target /\ ret.status = "ok"
    /\ args.mode = "LID"
    /\ \E i, j \in DOMAIN DepthIn :
          /\ IsFinite(DepthIn[i]) /\ Lt(Idx(i), Num(0))
          /\ IsNaN(DepthIn[j])
          /\ Out.data[i] = NumBins /\ Out.data[j] = NumBins

\* C2: a call with a mode other than UD, LID and SID ends in
\* NotImplementedError, returns no tensor and has computed none, whatever
\* the value of target.
C2_UnsupportedMode ==
    (AtReturn("bin_depths") /\ args.mode \notin SupportedModes) =>
        /\ ret.status = "NotImplementedError"
        /\ ret.ref = NoRef
        /\ Len(store) = 1

C2_Witness ==
    /\ AtReturn("bin_depths") /\ args.mode = "XYZ" /\ args.target
    /\ ret.status = "NotImplementedError"

\* The endpoints of the range come out as 0 and num_bins.
EndpointsAgree ==
    /\ ret.status = "ok"
    /\ \A i \in DOMAIN DepthIn :
          /\ DepthIn[i] = args.depth_min => Out.data[i] = Num(0)
          /\ DepthIn[i] = args.depth_max => Out.data[i] = NumBins

\* C3 (as amended): with target=False, a depth equal to depth_min yields
\* index 0 and a depth equal to depth_max yields index num_bins, for UD and
\* LID always and for SID whenever depth_min > -1.
C3_Endpoints ==
    (/\ AtReturn("bin_depths") /\ ~args.target
     /\ args.mode \in SupportedModes
     /\ (args.mode = "SID" => Gt(args.depth_min, Num(-1))))
        => EndpointsAgree

\* C3 as stated: the same for all three modes and every depth_min.
C3_EndpointsEveryRange ==
    (AtReturn("bin_depths") /\ ~args.target /\ args.mode \in SupportedModes)
        => EndpointsAgree

\* A SID call whose depth map holds both endpoints, depth_min negative.
C3_Witness ==
    /\ AtReturn("bin_depths") /\ ~args.target /\ args.mode = "SID"
    /\ ret.status = "ok"
    /\ Lt(args.depth_min, Num(0))
    /\ \E i, j \in DOMAIN DepthIn :
          /\ DepthIn[i] = args.depth_min /\ Out.data[i] = Num(0)
          /\ DepthIn[j] = args.depth_max /\ Out.data[j] = NumBins

InRange(d) ==
    IsFinite(d) /\ Le(args.depth_min, d) /\ Le(d, args.depth_max)

\* C4: in mode UD, for two depths d1 <= d2 within [depth_min, depth_max] the
\* index of d1 is at most the index of d2, with target=False and with
\* target=True alike.
C4_UDMonotone ==
    (AtReturn("bin_depths") /\ args.mode = "UD") =>
        /\ ret.status = "ok"
        /\ \A i, j \in DOMAIN DepthIn :
              (InRange(DepthIn[i]) /\ InRange(DepthIn[j])
               /\ Le(DepthIn[i], DepthIn[j]))
                  => Le(Out.data[i], Out.data[j])

\* Two depths of the range in increasing order whose integer bins differ.
C4_Witness ==
    /\ AtReturn("bin_depths") /\ args.mode = "UD" /\ args.target
    /\ Len(DepthIn) = 2
    /\ InRange(DepthIn[1]) /\ InRange(DepthIn[2])
    /\ Lt(DepthIn[1], DepthIn[2])
    /\ Lt(Out.data[1], Out.data[2])

\* C8 (as amended): the masking step writes in place into the tensor of
\* indices that bin_depths computed itself (the second tensor of the store,
\* depth_map being the first), which holds num_bins at every masked
\* position; the caller's depth_map is the same after the call as before,
\* and none of the three functions changes a tensor that existed before
\* the call.
C8_InputsUntouched ==
    /\ []((AtReturn("bin_depths") /\ args.target /\ ret.status = "ok") =>
            /\ store[2].dtype = "float"
            /\ \A i \in DOMAIN DepthIn :
                  Mask(Idx(i), args.num_bins) => store[2].data[i] = NumBins)
    /\ [][\A r \in DOMAIN store : store'[r] = store[r]]_vars

\* C8 as stated: after the call the caller's depth_map holds num_bins at
\* every masked position.
C8_DepthMapMasked ==
    (AtReturn("bin_depths") /\ args.target /\ ret.status = "ok") =>
        \A i \in DOMAIN DepthIn :
            Mask(Idx(i), args.num_bins) => DepthIn[i] = NumBins

\* A masked position where the indices hold num_bins and depth_map does not.
C8_Witness ==
    /\ AtReturn("bin_depths") /\ args.target /\ ret.status = "ok"
    /\ \E i \in DOMAIN DepthIn :
          /\ Mask(Idx(i), args.num_bins)
          /\ DepthIn[i] # NumBins
          /\ store[2].dtype = "float"
          /\ store[2].data[i] = NumBins

\* C10: in mode UD with target=True, a finite depth d with
\* depth_min <= d < depth_max yields the integer k of 0..num_bins-1 with
\* k * bin_size <= d - depth_min < (k + 1) * bin_size, and every other depth
\* yields num_bins.
C10_UDTargetIndices ==
    (AtReturn("bin_depths") /\ args.mode = "UD" /\ args.target) =>
        /\ ret.status = "ok"
        /\ Out.dtype = "int64"
        /\ \A i \in DOMAIN DepthIn :
              LET d == DepthIn[i]
                  span == Sub(args.depth_max, args.depth_min)
                  off == Mul(NumBins, Sub(d, args.depth_min))
              IN  IF IsFinite(d) /\ Le(args.depth_min, d) /\ Lt(d, args.depth_max)
                  THEN \E k \in 0..(args.num_bins - 1) :
                          /\ Out.data[i] = Num(k)
                          /\ Le(Mul(Num(k), span), off)
                          /\ Lt(off, Mul(Num(k + 1), span))
                  ELSE Out.data[i] = NumBins

\* A depth below depth_min whose index lies strictly between -1 and 0.
C10_Witness ==
    /\ AtReturn("bin_depths") /\ args.mode = "UD" /\ args.target
    /\ \E i \in DOMAIN DepthIn :
          /\ Lt(Idx(i), Num(0)) /\ Gt(Idx(i), Num(-1))
          /\ Out.data[i] = NumBins

\* project_to_image: the arguments and the two returned tensors.
ProjIn == store[args.project].data
PointsIn == store[args.points].data
DepthOut == store[ret.depth].data
ImgOut == store[ret.img].data
BatchB == Len(PointsIn)
BatchM == Len(ProjIn)
PerBatchN == Len(PointsIn[1])

\* C5: with bmm=False, wherever the projection matrix is [I | 0] a point
\* (x, y, z) with z # 0 gets depth z and image coordinates (x/z, y/z).
C5_IdentityProjection ==
    (AtReturn("project_to_image") /\ ~args.bmm /\ ret.status = "ok") =>
        /\ Len(DepthOut) = Max(BatchB, BatchM)
        /\ \A b \in 1..Len(DepthOut) :
              ProjIn[Bc(b, BatchM)] = IdentityProj =>
                  /\ Len(DepthOut[b]) = PerBatchN
                  /\ \A n \in 1..PerBatchN :
                        LET p == PointsIn[Bc(b, BatchB)][n]
                        IN  p[3] # Num(0) =>
                              /\ DepthOut[b][n] = p[3]
                              /\ ImgOut[b][n] = <<Div(p[1], p[3]), Div(p[2], p[3])>>

\* The point (4, -2, 2) under [I | 0]: depth 2, image point (2, -1).
C5_Witness ==
    /\ AtReturn("project_to_image") /\ ~args.bmm /\ ret.status = "ok"
    /\ ProjIn[1] = IdentityProj
    /\ PointsIn[1][1] = Vec(<<4, -2, 2>>)
    /\ DepthOut[1][1] = Num(2)
    /\ ImgOut[1][1] = Vec(<<2, -1>>)

\* C7: with bmm=True, when the batch count B of points is not a multiple of
\* the batch count M of project the call ends in an error and returns
\* nothing.
C7_BatchDivisibility ==
    (AtReturn("project_to_image") /\ args.bmm /\ BatchB % BatchM # 0) =>
        /\ ret.status = "RuntimeError"
        /\ ret.img = NoRef /\ ret.depth = NoRef
        /\ Len(store) = 2

\* Three batches of points against two projection matrices.
C7_Witness ==
    /\ AtReturn("project_to_image") /\ args.bmm
    /\ BatchB = 3 /\ BatchM = 2
    /\ ret.status = "RuntimeError"

\* C9: with bmm=True, project of shape (B, 3, 4) and points of shape
\* (B, N, 3), the call returns a depth of shape (B, N) with depth[b][n] the
\* third coordinate of project[b] applied to points[b][n], minus
\* project[b][2][3].
C9_BmmDepth ==
    (AtReturn("project_to_image") /\ args.bmm /\ BatchM = BatchB) =>
        /\ ret.status = "ok"
        /\ Len(DepthOut) = BatchB
        /\ \A b \in 1..BatchB :
              /\ Len(DepthOut[b]) = PerBatchN
              /\ \A n \in 1..PerBatchN :
                    DepthOut[b][n] =
                        Sub(MatVec(ProjIn[b], ToHomogeneous(PointsIn[b][n]))[3],
                            ProjIn[b][3][4])

\* normalize_coords: the coordinate row, the grid shape and the result.
CoordsIn == store[args.coords].data[1]
ShapeIn == store[args.shape].data
NormOut == store[ret.ref].data[1]

BoundaryAt(i) ==
    /\ CoordsIn[i] = Num(0) => NormOut[i] = Num(-1)
    /\ CoordsIn[i] = Sub(ShapeIn[4 - i], Num(1)) => NormOut[i] = Num(1)

\* C6 (as amended): on every axis i whose extent shape[2 - i] is at least 2,
\* the coordinate 0 is normalized to exactly -1 and the coordinate
\* shape[2 - i] - 1 to exactly 1.
C6_Boundary ==
    AtReturn("normalize_coords") =>
        \A i \in 1..3 : Gt(ShapeIn[4 - i], Num(1)) => BoundaryAt(i)

\* C6 as stated: the same on every axis of every grid shape.
C6_BoundaryEveryShape ==
    AtReturn("normalize_coords") => \A i \in 1..3 : BoundaryAt(i)

\* A grid whose first and last extents differ, with the first coordinate at
\* the end of the last extent and the last coordinate at 0.
C6_Witness ==
    /\ AtReturn("normalize_coords")
    /\ ShapeIn[1] # ShapeIn[3] /\ Gt(ShapeIn[3], Num(1)) /\ Gt(ShapeIn[1], Num(1))
    /\ CoordsIn[1] = Sub(ShapeIn[3], Num(1)) /\ NormOut[1] = Num(1)
    /\ CoordsIn[3] = Num(0) /\ NormOut[3] = Num(-1)

====
